---- MODULE Spec2Model ----
(***************************************************************************)
(* asks/request.py: the Request object of the asks HTTP client.  One       *)
(* exchange is one call of Request.make_request by the session; redirects  *)
(* and authentication retries re-enter make_request on the same object.    *)
(***************************************************************************)
EXTENDS Integers, Sequences, FiniteSets, TLC

\* ------------------------------------------------------------------ bounds
\* Largest number of items in a data or files mapping given to an encoder.
MaxItems == 2
\* Largest max_redirects a caller passes.
MaxRedirects == 2
\* Largest number of h11.Data events in one response body.
MaxChunks == 2

\* ------------------------------------------------------------ vocabulary
\* The Request objects of the model; every exchange owns one.
Exchanges == {"A", "B"}

\* A header that is not in a header mapping.
NoHeader == "<absent>"

\* urlparse() results: scheme, netloc (a sequence of dot-separated labels), path,
\* query and fragment ("" where the text has none).
ParseResult(scheme, netloc, path, query, fragment) ==
    [scheme |-> scheme, netloc |-> netloc, path |-> path, query |-> query,
     fragment |-> fragment]

\* A URI with neither query nor fragment.
URI(scheme, netloc, path) == ParseResult(scheme, netloc, path, "", "")

\* A Location value with no scheme and no authority.
Relative(path) == URI("", <<>>, path)

\* A Location value with no scheme and no authority, with query and fragment.
RelativeRef(path, query, fragment) == ParseResult("", <<>>, path, query, fragment)

HostA == <<"www", "a", "example">>
HostA2 == <<"ww2", "a", "example">>
HostB == <<"www", "b", "test">>

\* Python truthiness of the body fields: None and the empty mapping are falsy.
Truthy(v) == v \notin {"None", "empty"}

Last(seq) == seq[Len(seq)]

Lower(v) == IF v = "Close" THEN "close" ELSE v

\* ----------------------------------------------------------------- state
VARIABLES
    self,           \* Exchanges -> the Request object's attributes
    pc,             \* Exchanges -> where the exchange's control is
    stack,          \* Exchanges -> the active make_request invocations, innermost last
    response_obj,   \* Exchanges -> the local response_obj of the innermost _request_io
    result,         \* Exchanges -> what make_request gave its caller: return value or exception
    auth_attempted, \* the auth_attempted flag of the one PostResponseAuth handle
    conns,          \* the connections the session has handed out, by id
    server,         \* what the servers of this run may answer
    wire,           \* Exchanges -> the requests sent, in order
    received,       \* Exchanges -> the Response objects built by _catch_response, in order
    codec           \* the argument and the result of one call of a body or query encoder

vars == <<self, pc, stack, response_obj, result, auth_attempted, conns, server,
          wire, received, codec>>

\* No encoder has been called.
NoCall == [fn |-> "none"]

\* ------------------------------------------------------- request building
\* An invocation of make_request: who called it and its redirect argument.
Invocation(site, redirect) == [site |-> site, redirect |-> redirect]

\* A connection handed out by the session: the _active flag, the number of
\* protocol events of the last response still unread on it, whether a
\* response carrying Connection: close has come over it, the body framing
\* announced by the headers of the last response read from it.
NewConn == [active |-> TRUE, unread |-> 0, close_seen |-> FALSE, framing |-> ""]

HeaderNames == {"Connection", "Accept-Encoding", "Accept", "Content-Length",
                "User-Agent", "Content-Type", "Authorization", "Cookie"}

\* lines 134-140: the default headers (Host is kept apart, as the netloc).
DefaultHeaders ==
    [h \in HeaderNames |->
        CASE h = "Connection" -> "keep-alive"
          [] h = "Accept-Encoding" -> "gzip, deflate"
          [] h = "Accept" -> "*/*"
          [] h = "Content-Length" -> "0"
          [] h = "User-Agent" -> "python-asks/0.0.1"
          [] OTHER -> NoHeader]

\* c_i_dict.update(d): the entries of d replace those of base.
Update(base, names, value) == [h \in HeaderNames |-> IF h \in names THEN value ELSE base[h]]

\* lines 359-393: content type, content length and body of the request.
\* The body is named by its kind; "" is the empty body.
_formulate_body(s) ==
    LET multipart_ctype == "multipart/form-data"
        made ==
            IF s.files # "None" /\ s.data # "None"
            THEN [c_type |-> multipart_ctype,
                  body |-> IF Truthy(s.files) \/ Truthy(s.data) THEN "multipart" ELSE ""]
            ELSE IF s.files # "None"
            THEN [c_type |-> multipart_ctype,
                  body |-> IF Truthy(s.files) THEN "multipart" ELSE ""]
            ELSE IF s.data # "None"
            THEN IF s.data = "literal"
                 THEN [c_type |-> " text/html", body |-> "literal"]
                 ELSE [c_type |-> "application/x-www-form-urlencoded",
                       body |-> IF Truthy(s.data) THEN "form" ELSE ""]
            ELSE IF s.json # "None"
            THEN [c_type |-> "application/json",
                  body |-> "json"]
            ELSE [c_type |-> "None", body |-> ""]
    IN  [c_type |-> made.c_type,
         content_len |-> IF made.body = "" THEN "0" ELSE "len(body)",
         body |-> made.body,
         \* 372: {**self.files, **self.data} of a data that is not a mapping
         err |-> IF s.files # "None" /\ s.data = "literal" THEN "TypeError" ELSE ""]

\* lines 584-593: the headers of a PreResponseAuth strategy.
_auth_handler_pre(s) == IF s.auth = "pre" THEN {"Authorization"} ELSE {}

\* The strategy is never called on the retry and the flag is never set.
M_PostAuthNeverMarked(s, attempted) == FALSE

\* lines 595-611: whether a PostResponseAuth strategy is called for this
\* attempt (it then sets auth_attempted and returns its headers).
_auth_handler_post_get_auth(s, attempted) ==
    /\ s.auth = "post"
    /\ s.history_objects # <<>>
    /\ Last(s.history_objects).status = 401
    /\ ~attempted

\* A Response object: n is its place in the order of arrival, body the number
\* of data chunks accumulated into it, stream_body whether its body is a
\* StreamBody.
Response(n, status, location, connection, framing, chunks, body, stream_body) ==
    [n |-> n, status |-> status, location |-> location, connection |-> connection,
     framing |-> framing, chunks |-> chunks, body |-> body, stream_body |-> stream_body]

NoResponse == Response(0, 0, <<>>, NoHeader, "content-length: 0", 0, 0, FALSE)

\* The local response_obj of _request_io: a Response, or the (sock, Response)
\* tuple make_request returns; history_set once .history has been assigned.
Local(is_tuple, resp, history_set) ==
    [is_tuple |-> is_tuple, resp |-> resp, history_set |-> history_set]

Returned(sock, resp, history) ==
    [kind |-> "return", err |-> "", sock |-> sock, resp |-> resp, history |-> history]

Raised(err) ==
    [kind |-> "raise", err |-> err, sock |-> 0, resp |-> NoResponse, history |-> <<>>]

NoResult == [kind |-> "", err |-> "", sock |-> 0, resp |-> NoResponse, history |-> <<>>]

\* An exception no frame catches: it leaves every active make_request.
Raise(e, err) ==
    /\ pc' = [pc EXCEPT ![e] = "error"]
    /\ result' = [result EXCEPT ![e] = Raised(err)]

\* line 146, persist_cookies.get_additional_cookies(netloc, path): the names
\* of the cookies the session's jar holds for an authority and a path.
get_additional_cookies(netloc, path) ==
    (IF netloc = HostA THEN {"a"} ELSE IF netloc = HostB THEN {"b"} ELSE {})
        \cup (IF netloc = HostA /\ path = "/old" THEN {"a_old"} ELSE {})

\* lines 252-273: the request target. The structured parameters are appended
\* to the query of the URI with '&', or start the query with '?'.
_build_path(path, query, params) ==
    [path |-> IF path = "" THEN "/" ELSE path,
     query |-> query,
     params |-> IF ~Truthy(params) THEN ""
                ELSE IF query # "" THEN "&params" ELSE "?params"]

\* lines 109-189 and 570-582 (_send): one attempt is built and sent.
MakeRequest(e) ==
    /\ pc[e] = "make_request"
    /\ LET s0 == self[e]
           redirect == Last(stack[e]).redirect
           \* 123-124
           s1 == [s0 EXCEPT !.scheme = s0.uri.scheme, !.netloc = s0.uri.netloc,
                            !.path = s0.uri.path, !.query = s0.uri.query]
           \* 126-128
           sr == IF ~redirect
                 THEN [s1 EXCEPT !.initial_scheme = s1.scheme,
                                 !.initial_netloc = s1.netloc]
                 ELSE s1
           \* 144-147
           s2 == IF sr.persist_cookies # "None"
                 THEN [sr EXCEPT !.cookies = @ \cup get_additional_cookies(sr.netloc, sr.path)]
                 ELSE sr
           \* 152-157
           needs_body == Truthy(s2.data) \/ Truthy(s2.files) \/ Truthy(s2.json)
           fb == _formulate_body(s2)
           body == IF needs_body THEN fb.body ELSE ""
           h1 == IF needs_body
                 THEN [DefaultHeaders EXCEPT !["Content-Type"] = fb.c_type,
                                             !["Content-Length"] = fb.content_len]
                 ELSE DefaultHeaders
           \* 161-162
           h2 == Update(h1, s2.headers, "user")
           \* 165-167
           h3 == IF s2.auth # "None" THEN Update(h2, _auth_handler_pre(s2), "pre") ELSE h2
           post == s2.auth # "None" /\ _auth_handler_post_get_auth(s2, auth_attempted)
           h4 == IF post THEN Update(h3, {"Authorization"}, "post") ELSE h3
           \* 170-174
           h5 == IF s2.cookies # {} THEN [h4 EXCEPT !["Cookie"] = "cookie_str"] ELSE h4
           \* 177-186
           req == [method |-> s2.method, scheme |-> s2.scheme, host |-> s2.netloc,
                   target |-> _build_path(s2.path, s2.query, s2.params),
                   uri |-> s2.uri, headers |-> h5, cookies |-> s2.cookies,
                   body |-> body, sock |-> s2.sock, site |-> Last(stack[e]).site,
                   max_redirects |-> s2.max_redirects]
       IN  IF needs_body /\ fb.err # ""
           THEN /\ self' = [self EXCEPT ![e] = s2]
                /\ Raise(e, fb.err)
                /\ UNCHANGED <<auth_attempted, wire>>
           ELSE /\ self' = [self EXCEPT ![e] = s2]
                /\ auth_attempted' = (auth_attempted \/ post)
                /\ wire' = [wire EXCEPT ![e] = Append(@, req)]
                /\ pc' = [pc EXCEPT ![e] = "catch_response"]
                /\ UNCHANGED result
    /\ UNCHANGED <<stack, response_obj, conns, server, received, codec>>

\* ------------------------------------------------------ response handling
\* lines 526-532: whether a body is to be read; the lookup of an absent
\* header raises KeyError.
GetBody(framing) ==
    CASE framing = "content-length" -> "True"
      [] framing = "content-length: 0" -> "False"
      [] framing = "chunked" -> "True"
      [] OTHER -> "KeyError"

\* lines 534-558: how the body events of a response are consumed.
\*   body: data chunks accumulated;  unread: events left on the connection;
\*   stream_body: a StreamBody was built;  inactive: sock._active cleared;
\*   err: the exception raised, if any.
ConsumeBody(s, status, connection, chunks, get_body) ==
    LET same_origin == s.scheme = s.initial_scheme /\ s.netloc = s.initial_netloc
        out(body, unread, stream_body, inactive, err) ==
            [body |-> body, unread |-> unread, stream_body |-> stream_body,
             inactive |-> inactive, err |-> err]
    IN  IF get_body
        THEN IF s.callback # "None"
             THEN out(0, 0, FALSE, FALSE, "")
             ELSE IF s.stream # "None"
             THEN IF 199 < status /\ status < 300
                  THEN IF ~same_origin /\ connection = NoHeader
                       THEN out(0, chunks + 1, FALSE, FALSE, "KeyError")
                       ELSE out(0, chunks + 1, TRUE,
                                ~(same_origin \/ connection = "close"), "")
                  ELSE out(0, chunks + 1, FALSE, FALSE, "")
             ELSE out(chunks, 0, FALSE, FALSE, "")
        ELSE out(0, 0, FALSE, FALSE, "")

\* lines 227-236 and 489-560 (_catch_response): the server answers and the
\* Response object is built.
CatchResponse(e) ==
    /\ pc[e] = "catch_response"
    /\ \E status \in server.statuses, location \in server.locations \cup {<<>>},
          connection \in server.connections, framing \in server.framings,
          chunks \in 0..MaxChunks :
        /\ (status < 300 \/ status >= 400) => location = <<>>
        /\ location = <<>> => (status < 300 \/ status >= 400 \/ <<>> \in server.locations)
        /\ framing \in {"content-length: 0", "none"} => chunks = 0
        /\ framing = "content-length" => chunks >= 1
        /\ LET s == self[e]
               get_body == GetBody(framing)
               c == ConsumeBody(s, status, connection, chunks, get_body = "True")
               resp == Response(Len(received[e]) + 1, status, location, connection,
                                framing, chunks, c.body, c.stream_body)
           IN  /\ conns' = [conns EXCEPT ![s.sock] =
                               [active |-> @.active /\ ~c.inactive,
                                unread |-> IF get_body = "KeyError" THEN 1 ELSE c.unread,
                                close_seen |-> @.close_seen \/ Lower(connection) = "close",
                                framing |-> framing]]
               /\ IF get_body = "KeyError" \/ c.err # ""
                  THEN /\ Raise(e, "KeyError")
                       /\ UNCHANGED <<self, response_obj, received>>
                  ELSE /\ self' = [self EXCEPT ![e].streaming = @ \/ c.stream_body]
                       /\ received' = [received EXCEPT ![e] = Append(@, resp)]
                       /\ response_obj' = [response_obj EXCEPT ![e] = Local(FALSE, resp, FALSE)]
                       /\ pc' = [pc EXCEPT ![e] = "auth_check"]
                       /\ UNCHANGED result
    /\ UNCHANGED <<stack, auth_attempted, server, wire, codec>>

\* lines 562-582: sock.sendall or sock.recv fails; nothing catches it.
TransportError(e) ==
    /\ pc[e] = "catch_response"
    /\ Raise(e, "TransportError")
    /\ UNCHANGED <<self, stack, response_obj, auth_attempted, conns, server, wire, received, codec>>

\* line 336 and line 626: make_request is re-entered, always without arguments.
Call(e, site) == stack' = [stack EXCEPT ![e] = Append(@, Invocation(site, FALSE))]

\* lines 238-241 and 613-632 up to the nested call.
_auth_handler_post_check_retry(e) ==
    /\ pc[e] = "auth_check"
    /\ LET s == self[e]
           r == response_obj[e]
       IN  IF s.auth = "post" /\ r.resp.status = 401
           THEN IF ~auth_attempted
                THEN /\ self' = [self EXCEPT ![e].history_objects = Append(@, r.resp)]
                     /\ Call(e, "auth")
                     /\ pc' = [pc EXCEPT ![e] = "make_request"]
                     /\ UNCHANGED response_obj
                ELSE /\ response_obj' = [response_obj EXCEPT ![e].history_set = TRUE]
                     /\ pc' = [pc EXCEPT ![e] = "check_redirects"]
                     /\ UNCHANGED <<self, stack>>
           ELSE /\ pc' = [pc EXCEPT ![e] = "check_redirects"]
                /\ UNCHANGED <<self, stack, response_obj>>
    /\ UNCHANGED <<result, auth_attempted, conns, server, wire, received, codec>>

\* ---------------------------------------------------------------- redirects
\* re.match(_WWX_MATCH, netloc)[0] removed from the netloc: the leading label
\* when it is "ww" and one more character; None[0] is a TypeError otherwise.
WWXMatch(netloc) == netloc # <<>> /\ netloc[1] \in {"www", "ww2", "wwx"}

\* '.'.join(netloc.split('.')[-2:]) after the match is removed.
BaseDomain(netloc) ==
    LET sans == Tail(netloc)
    IN  IF Len(sans) <= 2 THEN sans ELSE SubSeq(sans, Len(sans) - 1, Len(sans))

\* Python's < on the scheme strings of the model.
SchemeLess(a, b) == a = "http" /\ b = "https"

\* lines 634-662: what the coroutine would return if it were run.
_location_auth_protect(s, location) ==
    IF ~WWXMatch(s.netloc) \/ ~WWXMatch(location.netloc)
    THEN "TypeError"
    ELSE IF BaseDomain(s.netloc) = BaseDomain(location.netloc)
         THEN IF SchemeLess(location.scheme, s.scheme) THEN "False" ELSE "True"
         ELSE "None"

\* line 316: _location_auth_protect is a coroutine function and the call is
\* not awaited, so allow_redirect is bound to the coroutine object: an object
\* with neither __bool__ nor __len__, truthy whatever it would return.
CoroutineTruthy(would_return) == TRUE

\* lines 303-317: allow_redirect for a redirect to location.
AllowRedirect(s, location) ==
    IF location.netloc # <<>> /\ s.auth # "None" /\ ~s.auth_off_domain
    THEN CoroutineTruthy(_location_auth_protect(s, location))
    ELSE TRUE

\* A relative Location gives its path and loses its query and fragment.
M_RedirectURI_PathOnly(s, location) ==
    IF location.netloc = <<>>
    THEN URI(s.scheme, s.netloc, location.path)
    ELSE location

\* lines 303-320: self.uri after the Location is resolved.
RedirectURI(s, location) ==
    IF location.netloc = <<>>
    THEN ParseResult(s.scheme, s.netloc, location.path, location.query,
                     location.fragment)
    ELSE location

\* lines 339-357: the connection is retired and the session hands out another.
_get_new_sock(cs, sock) ==
    Append([cs EXCEPT ![sock].active = FALSE], NewConn)

\* The response is put in the history only on the branch that forces GET.
M_RedirectUpdate_HistoryOnlyWhenForced(s, resp, uri) ==
    LET cleared == IF resp.status = 303
                   THEN [s EXCEPT !.data = "None", !.json = "None", !.files = "None"]
                   ELSE s
        force_get == resp.status \notin {301, 305}
    IN  [cleared EXCEPT !.uri = uri,
                        !.history_objects = IF force_get THEN Append(@, resp) ELSE @,
                        !.method = IF force_get THEN "GET" ELSE @,
                        !.max_redirects = @ - 1]

\* A 303 clears data and json and leaves files.
M_RedirectUpdate_KeepsFiles(s, resp, uri) ==
    LET cleared == IF resp.status = 303
                   THEN [s EXCEPT !.data = "None", !.json = "None"]
                   ELSE s
        force_get == resp.status \notin {301, 305}
    IN  [cleared EXCEPT !.uri = uri,
                        !.history_objects = Append(@, resp),
                        !.method = IF force_get THEN "GET" ELSE @,
                        !.max_redirects = @ - 1]

\* A 302 is listed with 301 and 305 and keeps the method.
M_RedirectUpdate_FoundKeepsMethod(s, resp, uri) ==
    LET cleared == IF resp.status = 303
                   THEN [s EXCEPT !.data = "None", !.json = "None", !.files = "None"]
                   ELSE s
        force_get == resp.status \notin {301, 302, 305}
    IN  [cleared EXCEPT !.uri = uri,
                        !.history_objects = Append(@, resp),
                        !.method = IF force_get THEN "GET" ELSE @,
                        !.max_redirects = @ - 1]

\* lines 290-301 and 322-328: the Request after a 3xx response is recorded.
RedirectUpdate(s, resp, uri) ==
    LET cleared == IF resp.status = 303
                   THEN [s EXCEPT !.data = "None", !.json = "None", !.files = "None"]
                   ELSE s
        force_get == resp.status \notin {301, 305}
    IN  [cleared EXCEPT !.uri = uri,
                        !.history_objects = Append(@, resp),
                        !.method = IF force_get THEN "GET" ELSE @,
                        !.max_redirects = @ - 1]

\* line 245: the redirect budget is spent.
M_TooManyRedirects_OffByOne(max_redirects) == max_redirects <= 0

\* One more redirect is followed before the budget counts as spent.
M_TooManyRedirects_OneLate(max_redirects) == max_redirects < -1

TooManyRedirects(max_redirects) == max_redirects < 0

\* lines 243-247 and 275-337 up to the nested call: the redirect check.
_redirect(e) ==
    /\ pc[e] = "check_redirects"
    /\ LET s == self[e]
           r == response_obj[e]
       IN  IF s.method = "HEAD"
           THEN /\ pc' = [pc EXCEPT ![e] = "return"]
                /\ UNCHANGED <<self, stack, result, conns>>
           ELSE IF TooManyRedirects(s.max_redirects)
           THEN /\ Raise(e, "TooManyRedirects")
                /\ UNCHANGED <<self, stack, conns>>
           ELSE IF r.is_tuple
           THEN /\ Raise(e, "AttributeError")
                /\ UNCHANGED <<self, stack, conns>>
           ELSE IF ~(300 <= r.resp.status /\ r.resp.status < 400)
           THEN /\ pc' = [pc EXCEPT ![e] = "return"]
                /\ UNCHANGED <<self, stack, result, conns>>
           ELSE IF r.resp.location = <<>>
           THEN /\ Raise(e, "KeyError")
                /\ self' = [self EXCEPT ![e] =
                               IF r.resp.status = 303
                               THEN [s EXCEPT !.data = "None", !.json = "None",
                                              !.files = "None"]
                               ELSE s]
                /\ UNCHANGED <<stack, conns>>
           ELSE LET location == r.resp.location[1]
                    uri == RedirectURI(s, location)
                    allow_redirect == AllowRedirect(s, location)
                    \* 318-320
                    off_base == /\ location.netloc # <<>>
                                /\ (location.scheme # s.scheme \/ location.netloc # s.netloc)
                    cs1 == IF off_base THEN _get_new_sock(conns, s.sock) ELSE conns
                    sock1 == IF off_base THEN Len(cs1) ELSE s.sock
                    \* 330-334
                    close == /\ r.resp.connection # NoHeader
                             /\ Lower(r.resp.connection) = "close"
                    cs2 == IF close THEN _get_new_sock(cs1, sock1) ELSE cs1
                    sock2 == IF close THEN Len(cs2) ELSE sock1
                IN  /\ self' = [self EXCEPT ![e] =
                                   [RedirectUpdate(s, r.resp, uri) EXCEPT !.sock = sock2]]
                    /\ conns' = cs2
                    /\ IF allow_redirect
                       THEN /\ Call(e, "redirect")
                            /\ pc' = [pc EXCEPT ![e] = "make_request"]
                       ELSE /\ pc' = [pc EXCEPT ![e] = "return"]
                            /\ UNCHANGED stack
                    /\ UNCHANGED result
    /\ UNCHANGED <<response_obj, auth_attempted, server, wire, received, codec>>

\* lines 248-250, 195-203, and the return paths of the two nested calls
\* (336-337 and 626-628): the innermost make_request returns.
Return(e) ==
    /\ pc[e] = "return"
    /\ LET s == self[e]
           r == response_obj[e]
           inv == Last(stack[e])
           \* 195-198
           inactive == /\ inv.redirect
                       /\ ~(s.scheme = s.initial_scheme /\ s.netloc = s.initial_netloc)
           \* 200-203
           sock == IF s.streaming THEN 0 ELSE s.sock
       IN  IF r.is_tuple
           THEN \* 248: a tuple has no attribute history
                /\ Raise(e, "AttributeError")
                /\ UNCHANGED <<stack, response_obj, auth_attempted, conns>>
           ELSE /\ conns' = IF inactive THEN [conns EXCEPT ![s.sock].active = FALSE]
                            ELSE conns
                /\ stack' = [stack EXCEPT ![e] = SubSeq(@, 1, Len(@) - 1)]
                /\ CASE inv.site = "session" ->
                          /\ pc' = [pc EXCEPT ![e] = "done"]
                          /\ result' = [result EXCEPT ![e] =
                                           Returned(sock, r.resp, s.history_objects)]
                          /\ response_obj' = [response_obj EXCEPT ![e].history_set = TRUE]
                          /\ UNCHANGED auth_attempted
                     [] inv.site = "redirect" ->
                          /\ pc' = [pc EXCEPT ![e] = "return"]
                          /\ response_obj' = [response_obj EXCEPT ![e].history_set = TRUE]
                          /\ UNCHANGED <<result, auth_attempted>>
                     [] inv.site = "auth" ->
                          /\ auth_attempted' = FALSE
                          /\ response_obj' = [response_obj EXCEPT ![e] =
                                                 Local(TRUE, r.resp, TRUE)]
                          /\ pc' = [pc EXCEPT ![e] = "check_redirects"]
                          /\ UNCHANGED result
    /\ UNCHANGED <<self, server, wire, received, codec>>

\* ---------------------------------------------------------------- encoders
\* Text is a sequence of characters. A character that quote() escapes is
\* written as one element holding its escape.
Whitespace == {" "}

\* The characters quote(..., safe='/=+?&') leaves alone, among those used here.
SafeChars == {"a", "b", "k", "l", "m", "x", "y", "0", "1", "2", "=", "+", "&", "?", "/"}

\* The values of a data mapping: None, str, Number (by its str()), list, dict
\* (by its keys, in order).
None == [type |-> "None", str |-> <<>>, elems |-> <<>>]
Str(s) == [type |-> "str", str |-> s, elems |-> <<>>]
Number(digits) == [type |-> "Number", str |-> digits, elems |-> <<>>]
List(elems) == [type |-> "list", str |-> <<>>, elems |-> elems]
Dict(keys) == [type |-> "dict", str |-> <<>>, elems |-> keys]

\* line 410, "if not v": None, '', 0, [] and {} are falsy.
TruthyValue(v) ==
    CASE v.type = "None" -> FALSE
      [] v.type = "str" -> v.str # <<>>
      [] v.type = "Number" -> v.str # <<"0">>
      [] OTHER -> v.elems # <<>>

\* str.split(): the maximal runs of non-whitespace characters, in order.
RECURSIVE Split(_, _, _)
Split(s, i, word) ==
    IF i > Len(s)
    THEN IF word = <<>> THEN <<>> ELSE <<word>>
    ELSE IF s[i] \in Whitespace
    THEN IF word = <<>> THEN Split(s, i + 1, <<>>)
         ELSE <<word>> \o Split(s, i + 1, <<>>)
    ELSE Split(s, i + 1, Append(word, s[i]))

\* sep.join(parts)
RECURSIVE Join(_, _)
Join(sep, parts) ==
    IF parts = <<>> THEN <<>>
    ELSE IF Len(parts) = 1 THEN parts[1]
    ELSE parts[1] \o sep \o Join(sep, Tail(parts))

\* urllib.parse.quote of one character.
Quote(c) ==
    CASE c \in SafeChars -> c
      [] c = " " -> "%20"
      [] c = ":" -> "%3A"

\* lines 482-487
_queryify(query) == [i \in 1..Len(query) |-> Quote(query[i])]

\* The loop of lines 409-423, from item i on.
RECURSIVE QueryLoop(_, _, _)
QueryLoop(data, i, query) ==
    IF i > Len(data) THEN query
    ELSE LET k == data[i].k
             v == data[i].v
             plus(text) == Join(<<"+">>, Split(text, 1, <<>>))
         IN  IF ~TruthyValue(v)
             THEN QueryLoop(data, i + 1, query)
             ELSE IF v.type \in {"str", "Number"}
             THEN QueryLoop(data, i + 1,
                            Append(query, _queryify(k \o <<"=">> \o plus(v.str))))
             ELSE IF v.type = "dict"
             THEN QueryLoop(data, i + 1,
                            query \o [j \in 1..Len(v.elems) |->
                                         _queryify(k \o <<"=">> \o v.elems[j])])
             ELSE QueryLoop(data, i + 1,
                            query \o [j \in 1..Len(v.elems) |->
                                         _queryify(k \o <<"=">> \o plus(v.elems[j]))])

\* The prefix is put in front whatever params says.
M_dict_to_query_AlwaysPrefixed(data, params, base_query) ==
    LET query == QueryLoop(data, 1, <<>>)
    IN  IF query # <<>>
        THEN (IF ~base_query THEN <<"?">> ELSE <<"&">>) \o Join(<<"&">>, query)
        ELSE Join(<<"&">>, query)

\* lines 395-430
_dict_to_query(data, params, base_query) ==
    LET query == QueryLoop(data, 1, <<>>)
    IN  IF params /\ query # <<>>
        THEN (IF ~base_query THEN <<"?">> ELSE <<"&">>) \o Join(<<"&">>, query)
        ELSE Join(<<"&">>, query)

\* A value of a files mapping: a str, and whether a file of that name can be opened.
Path(text, exists) == [text |-> text, exists |-> exists]

\* mimetypes.guess_type(basename(v)): the type and the encoding, "None" for None.
guess_type(name) ==
    CASE name = "a.txt" -> <<"text/plain", "None">>
      [] name = "a.tar.gz" -> <<"application/x-tar", "gzip">>
      [] name = "x.gz" -> <<"None", "gzip">>
      [] OTHER -> <<"None", "None">>

\* The pieces of a multipart body.
Delimiter == <<"--boundary", "\r\n">>
CloseDelimiter == <<"--boundary--", "\r\n">>
Disposition(k) == <<"Content-Disposition: form-data; name=", k>>
Filename(name) == <<"; filename=", name>>
ContentType(mime) == <<"; Content-Type: ", mime>>
BlankLine == <<"\r\n", "\r\n">>
FileContent(name) == <<"readlines", name>>
Text(v) == <<"bytes", v>>

\* lines 455-474: the part of one item, after its opening delimiter.
MultipartPart(k, v) ==
    LET mime_type == guess_type(v.text)
        io_header == <<Disposition(k), Filename(v.text)>>
        literal == <<Disposition(k), BlankLine, Text(v.text)>>
    IN  IF ~v.exists
        THEN \* 457: FileNotFoundError
             literal
        ELSE IF mime_type[2] = "None"
        THEN io_header \o <<ContentType(<<"application/octet-stream">>), BlankLine,
                            FileContent(v.text)>>
        ELSE IF mime_type[1] = "None"
        THEN \* 467: '/'.join((None, encoding)) is a TypeError, caught at 472
             io_header \o literal
        ELSE io_header \o <<ContentType(<<mime_type[1], "/", mime_type[2]>>), BlankLine,
                            FileContent(v.text)>>

\* The loop of lines 453-479, from item index on.
RECURSIVE MultipartLoop(_, _, _)
MultipartLoop(files_dict, index, multip_pkg) ==
    IF index > Len(files_dict) THEN multip_pkg
    ELSE LET part == Append(multip_pkg, Delimiter)
                        \o MultipartPart(files_dict[index].k, files_dict[index].v)
         IN  MultipartLoop(files_dict, index + 1,
                           IF index = Len(files_dict) THEN Append(part, CloseDelimiter)
                           ELSE part)

\* lines 432-480
_multipart(files_dict) == MultipartLoop(files_dict, 1, <<>>)

\* ------------------------------------------------------------ construction
\* The keyword arguments of Request(...), lines 78-94.
Kwargs(auth, auth_off_domain, data, json, files, headers, callback, stream, max_redirects) ==
    [auth |-> auth, auth_off_domain |-> auth_off_domain, data |-> data, json |-> json,
     files |-> files, headers |-> headers, callback |-> callback, stream |-> stream,
     max_redirects |-> max_redirects, cookies |-> {}, params |-> "None",
     persist_cookies |-> "None"]

\* lines 72-107: the Request object after __init__.
Request(method, uri, sock, kw) ==
    [method |-> method, uri |-> uri, auth |-> kw.auth,
     auth_off_domain |-> kw.auth_off_domain, data |-> kw.data, json |-> kw.json,
     files |-> kw.files, headers |-> kw.headers, cookies |-> kw.cookies,
     params |-> kw.params, query |-> "", persist_cookies |-> kw.persist_cookies,
     callback |-> kw.callback, stream |-> kw.stream,
     max_redirects |-> kw.max_redirects, sock |-> sock,
     history_objects |-> <<>>, scheme |-> "None", netloc |-> <<>>, path |-> "None",
     initial_scheme |-> "None", initial_netloc |-> <<>>, streaming |-> FALSE]

\* What a server may answer: the status codes, the Location values of its 3xx
\* responses (<<>>: none), the Connection values, the body framings.
Server(statuses, locations, connections, framings) ==
    [statuses |-> statuses, locations |-> locations, connections |-> connections,
     framings |-> framings]

Run(method, uri, kw, srv) == [method |-> method, uri |-> uri, kw |-> kw, server |-> srv]

Plain(max_redirects) ==
    Kwargs("None", FALSE, "None", "None", "None", {}, "None", "None", max_redirects)

\* Redirect chains of every length the budget allows, by every method.
RedirectRuns ==
    { Run(m, URI("http", HostA, "/old"), Plain(n),
          Server({200, 300, 301, 302, 303, 305, 307}, {<<Relative("/new")>>},
                 {NoHeader}, {"content-length: 0"})) :
        m \in {"GET", "POST", "HEAD"}, n \in (-1)..MaxRedirects }

\* Authentication strategies against servers that answer 401.
AuthRuns ==
    { Run(m, URI("http", HostA, "/old"), [Plain(n) EXCEPT !.auth = a],
          Server({200, 302, 401}, {<<Relative("/new")>>}, {NoHeader},
                 {"content-length: 0"})) :
        m \in {"GET", "HEAD"}, n \in 0..1, a \in {"pre", "post"} }

\* Redirects across schemes and domains, with and without authentication.
ProtectRuns ==
    { Run("GET", URI(sc, HostA, "/old"),
          [Plain(1) EXCEPT !.auth = a, !.auth_off_domain = off],
          Server({200, 302, 401},
                 {<<Relative("/new")>>, <<URI("http", HostA2, "/new")>>,
                  <<URI("https", HostA2, "/new")>>, <<URI("https", HostB, "/new")>>},
                 {NoHeader, "close"}, {"content-length: 0"})) :
        sc \in {"http", "https"}, a \in {"None", "pre", "post"}, off \in BOOLEAN }

\* The three ways of consuming a response body.
StreamRuns ==
    { Run("GET", URI("http", HostA, "/old"),
          [Plain(1) EXCEPT !.callback = cb, !.stream = st],
          Server({200, 404, 302}, {<<Relative("/new")>>, <<URI("http", HostB, "/new")>>},
                 {NoHeader, "close"}, {"content-length: 0", "content-length", "none"})) :
        cb \in {"None", "callback"}, st \in {"None", "True"} }

\* Every combination of the body fields, redirected with and without a 303.
BodyRuns ==
    { Run("POST", URI("http", HostA, "/old"),
          [Plain(1) EXCEPT !.data = d, !.json = j, !.files = f, !.headers = h],
          Server({200, 301, 303, 307}, {<<Relative("/new")>>, <<>>}, {NoHeader},
                 {"content-length: 0"})) :
        d \in {"None", "empty", "full", "literal"}, j \in {"None", "empty", "full"},
        f \in {"None", "empty", "full"}, h \in {{}, {"Content-Type"}} }

\* Relative Location values with a query or a fragment, against URIs with and
\* without a query and structured parameters.
QueryRuns ==
    { Run("GET", ParseResult(sc, HostA, "/old", q, ""), [Plain(1) EXCEPT !.params = p],
          Server({200, 302},
                 {<<RelativeRef("/new/path", "q=1", "")>>, <<RelativeRef("/new", "", "frag")>>,
                  <<RelativeRef("", "q=1", "")>>, <<URI("https", HostB, "/new")>>},
                 {NoHeader, "close"}, {"content-length: 0"})) :
        sc \in {"http", "https"}, q \in {"", "old=1"}, p \in {"None", "full"} }

\* Caller headers of names that the body, the authentication strategy and
\* the cookies also set.
HeaderRuns ==
    { Run("POST", URI("http", HostA, "/old"),
          [Plain(0) EXCEPT !.headers = h, !.auth = a, !.cookies = c, !.json = j],
          Server({200, 401}, {<<Relative("/new")>>}, {NoHeader}, {"content-length: 0"})) :
        h \in SUBSET {"Accept", "Content-Type", "Authorization", "Cookie"},
        a \in {"None", "pre", "post"}, c \in {{}, {"sid"}}, j \in {"None", "full"} }

\* Redirects within and across authorities with a cookie tracker set.
CookieRuns ==
    { Run("GET", URI("http", HostA, "/old"),
          [Plain(1) EXCEPT !.cookies = c, !.persist_cookies = "CookieTracker"],
          Server({200, 302},
                 {<<Relative("/new")>>, <<Relative("/old")>>, <<URI("http", HostB, "/new")>>,
                  <<URI("https", HostA2, "/new")>>},
                 {NoHeader}, {"content-length: 0"})) :
        c \in {{}, {"sid"}} }

Runs ==
    RedirectRuns \cup AuthRuns \cup ProtectRuns \cup StreamRuns \cup BodyRuns
        \cup QueryRuns \cup HeaderRuns \cup CookieRuns

\* The session has built one Request, handed it connection 1 and is about to
\* call make_request(); the other Request object is not in use.
Init ==
    \E run \in Runs :
        /\ self = [e \in Exchanges |->
                     IF e = "A" THEN Request(run.method, run.uri, 1, run.kw)
                     ELSE Request("GET", URI("http", HostA, "/old"), 0, Plain(0))]
        /\ pc = [e \in Exchanges |-> IF e = "A" THEN "make_request" ELSE "unused"]
        /\ stack = [e \in Exchanges |->
                      IF e = "A" THEN <<Invocation("session", FALSE)>> ELSE <<>>]
        /\ response_obj = [e \in Exchanges |-> Local(FALSE, NoResponse, FALSE)]
        /\ result = [e \in Exchanges |-> NoResult]
        /\ auth_attempted = FALSE
        /\ conns = <<NewConn>>
        /\ server = run.server
        /\ wire = [e \in Exchanges |-> <<>>]
        /\ received = [e \in Exchanges |-> <<>>]
        /\ codec = NoCall

Next ==
    \E e \in Exchanges :
        \/ MakeRequest(e)
        \/ CatchResponse(e)
        \/ TransportError(e)
        \/ _auth_handler_post_check_retry(e)
        \/ _redirect(e)
        \/ Return(e)

Spec == Init /\ [][Next]_vars

\* Every awaited step of a running exchange is eventually taken: the event
\* loop resumes the coroutine, and the peer answers or the transport fails.
SpecLive == Spec /\ WF_vars(Next)

\* ------------------------------------------------ two exchanges at a time
\* The session runs two Requests as concurrent tasks, each on a connection of
\* its own; both were given the same PostResponseAuth object.
InitConc ==
    \E ma, mb \in {"GET", "HEAD"} :
        /\ self = [e \in Exchanges |->
                     Request(IF e = "A" THEN ma ELSE mb, URI("http", HostA, "/old"),
                             IF e = "A" THEN 1 ELSE 2, [Plain(0) EXCEPT !.auth = "post"])]
        /\ pc = [e \in Exchanges |-> "make_request"]
        /\ stack = [e \in Exchanges |-> <<Invocation("session", FALSE)>>]
        /\ response_obj = [e \in Exchanges |-> Local(FALSE, NoResponse, FALSE)]
        /\ result = [e \in Exchanges |-> NoResult]
        /\ auth_attempted = FALSE
        /\ conns = <<NewConn, NewConn>>
        /\ server = Server({200, 401}, {<<Relative("/new")>>}, {NoHeader},
                           {"content-length: 0"})
        /\ wire = [e \in Exchanges |-> <<>>]
        /\ received = [e \in Exchanges |-> <<>>]
        /\ codec = NoCall

\* The tasks are interleaved at their awaits.
SpecConc == InitConc /\ [][Next]_vars

\* ------------------------------------------------- the encoders on their own
\* The mappings of at most MaxItems items, in iteration order, keys distinct.
Mappings(keys, values) ==
    UNION { { d \in [1..n -> [k : keys, v : values]] :
                \A i, j \in 1..n : i < j => d[i].k # d[j].k } : n \in 0..MaxItems }

QueryKeys == {<<"a">>, <<"b">>, <<"k", ":">>}

QueryValues ==
    {None, Str(<<>>), Str(<<"x">>), Str(<<" ">>), Str(<<" ", "x">>), Str(<<"x", " ">>),
     Str(<<"x", " ", "y">>), Str(<<"x", " ", " ", "y">>), Str(<<"x", ":", "y">>),
     Number(<<"0">>), Number(<<"1">>), Number(<<"2">>),
     List(<<>>), List(<< <<"1">>, <<"2">> >>), List(<< <<"x", " ", "y">> >>),
     List(<< <<>>, <<"0">> >>),
     Dict(<<>>), Dict(<< <<"k">> >>), Dict(<< <<"k", " ", "l">>, <<"m">> >>)}

FileKeys == {"f", "g", "h"}

FileValues ==
    {Path("a.txt", TRUE), Path("a.tar.gz", TRUE), Path("x.gz", TRUE), Path("noext", TRUE),
     Path("missing.txt", FALSE), Path("hello", FALSE)}

\* An encoder is about to be called on a mapping; no exchange is running.
InitCodec ==
    /\ self = [e \in Exchanges |-> Request("GET", URI("http", HostA, "/old"), 0, Plain(0))]
    /\ pc = [e \in Exchanges |-> "unused"]
    /\ stack = [e \in Exchanges |-> <<>>]
    /\ response_obj = [e \in Exchanges |-> Local(FALSE, NoResponse, FALSE)]
    /\ result = [e \in Exchanges |-> NoResult]
    /\ auth_attempted = FALSE
    /\ conns = <<NewConn>>
    /\ server = Server({}, {}, {}, {})
    /\ wire = [e \in Exchanges |-> <<>>]
    /\ received = [e \in Exchanges |-> <<>>]
    /\ \/ \E data \in Mappings(QueryKeys, QueryValues), params, base_query \in BOOLEAN :
             codec = [fn |-> "_dict_to_query", data |-> data, params |-> params,
                      base_query |-> base_query, returned |-> FALSE, out |-> <<>>]
       \/ \E files_dict \in Mappings(FileKeys, FileValues) :
             codec = [fn |-> "_multipart", data |-> files_dict, params |-> FALSE,
                      base_query |-> FALSE, returned |-> FALSE, out |-> <<>>]

DictToQuery ==
    /\ codec.fn = "_dict_to_query"
    /\ ~codec.returned
    /\ codec' = [codec EXCEPT !.returned = TRUE,
                              !.out = _dict_to_query(codec.data, codec.params,
                                                     codec.base_query)]
    /\ UNCHANGED <<self, pc, stack, response_obj, result, auth_attempted, conns, server, wire, received>>

Multipart ==
    /\ codec.fn = "_multipart"
    /\ ~codec.returned
    /\ codec' = [codec EXCEPT !.returned = TRUE, !.out = _multipart(codec.data)]
    /\ UNCHANGED <<self, pc, stack, response_obj, result, auth_attempted, conns, server, wire, received>>

NextCodec == DictToQuery \/ Multipart

SpecCodec == InitCodec /\ [][NextCodec]_vars

\* ==================================================================== claims
Is3xx(status) == 300 <= status /\ status < 400

Ended(e) == pc[e] \in {"done", "error"}

\* Every request sent so far was answered, each time by a 3xx with a Location.
OnlyRedirects(e) ==
    /\ Len(received[e]) = Len(wire[e])
    /\ \A i \in 1..Len(received[e]) :
          Is3xx(received[e][i].status) /\ received[e][i].location # <<>>

\* C1: with max_redirects = N >= 0 and a method other than HEAD, against a
\* server that answers every request with a 3xx, never more than N+2 requests
\* are sent, every request after the first is a redirect re-issue, and the
\* exchange ends by raising TooManyRedirects after exactly N+2 requests.
C1_TooManyRedirectsOnAttemptNPlus2 ==
    \A e \in Exchanges :
        (/\ wire[e] # <<>>
         /\ wire[e][1].max_redirects >= 0
         /\ wire[e][1].method # "HEAD"
         /\ OnlyRedirects(e))
        => LET N == wire[e][1].max_redirects
           IN  /\ Len(wire[e]) <= N + 2
               /\ \A i \in 2..Len(wire[e]) : wire[e][i].site = "redirect"
               /\ pc[e] # "done"
               /\ pc[e] = "error" => /\ result[e].err = "TooManyRedirects"
                                     /\ Len(wire[e]) = N + 2

C1_Witness ==
    \E e \in Exchanges :
        /\ wire[e] # <<>>
        /\ wire[e][1].max_redirects >= 1
        /\ wire[e][1].method # "HEAD"
        /\ OnlyRedirects(e)
        /\ pc[e] = "error"
        /\ result[e].err = "TooManyRedirects"
        /\ Len(wire[e]) = wire[e][1].max_redirects + 2

\* C2 (as claimed): with a PostResponseAuth strategy, a 401 answered to the
\* first request and a 401 answered to the retry, make_request returns the
\* second 401 with a history of exactly the first 401, and raises nothing.
C2_SecondUnauthorizedReturned ==
    \A e \in Exchanges :
        (/\ self[e].auth = "post"
         /\ Ended(e)
         /\ Len(wire[e]) = 2 /\ Len(received[e]) = 2
         /\ wire[e][2].site = "auth"
         /\ received[e][1].status = 401 /\ received[e][2].status = 401)
        => /\ pc[e] = "done"
           /\ result[e].resp = received[e][2]
           /\ result[e].history = <<received[e][1]>>

\* What the claim of C3 calls failing the protection check: the base domain
\* of the target differs from the current one, or the scheme is downgraded.
ProtectionFails(scheme, netloc, location) ==
    \/ BaseDomain(location.netloc) # BaseDomain(netloc)
    \/ SchemeLess(location.scheme, scheme)

\* C3 (as claimed): with an authentication strategy and auth_off_domain unset,
\* an absolute redirect that fails the protection check is the last response
\* of the exchange: no request follows it and it is the response returned.
C3_FailedProtectionSuppressesReissue ==
    \A e \in Exchanges : \A i \in 1..Len(received[e]) :
        (/\ self[e].auth # "None"
         /\ ~self[e].auth_off_domain
         /\ Is3xx(received[e][i].status)
         /\ received[e][i].location # <<>>
         /\ received[e][i].location[1].netloc # <<>>
         /\ ProtectionFails(wire[e][i].scheme, wire[e][i].host,
                            received[e][i].location[1]))
        => /\ Len(wire[e]) = i
           /\ pc[e] = "done" => result[e].resp = received[e][i]

\* C4 (as claimed): with stream set and no callback, a response with a body
\* and a status outside 200-299 is buffered: every data chunk is in its body
\* and no event of it is left unread on the connection.
C4_StreamingNon2xxIsBuffered ==
    \A e \in Exchanges :
        (/\ self[e].stream # "None"
         /\ self[e].callback = "None"
         /\ pc[e] = "auth_check"
         /\ Last(received[e]).chunks >= 1
         /\ ~(199 < Last(received[e]).status /\ Last(received[e]).status < 300))
        => /\ Last(received[e]).body = Last(received[e]).chunks
           /\ conns[self[e].sock].unread = 0

\* C5 (as claimed): the initial scheme and authority are those of the first
\* attempt of the exchange, through every later attempt.
C5_InitialOriginNeverChanges ==
    \A e \in Exchanges :
        wire[e] # <<>> => /\ self[e].initial_scheme = wire[e][1].scheme
                          /\ self[e].initial_netloc = wire[e][1].host

\* C6: in one exchange at most one request is a re-issue made because of a
\* 401, whatever 3xx and 401 responses arrive.
C6_AtMostOneAuthRetry ==
    \A e \in Exchanges :
        Cardinality({i \in 1..Len(wire[e]) : wire[e][i].site = "auth"}) <= 1

C6_Witness ==
    \E e \in Exchanges : \E i \in 1..Len(wire[e]) : \E j \in 1..Len(wire[e]) :
        /\ wire[e][i].site = "redirect"
        /\ wire[e][j].site = "auth"
        /\ Len(received[e]) >= j
        /\ received[e][j].status = 401
        /\ pc[e] = "check_redirects"

\* C7 (as claimed): after max_redirects has dropped below zero no request is
\* sent.
C7_NoRequestOnceBudgetNegative ==
    \A e \in Exchanges : \A i \in 2..Len(wire[e]) :
        wire[e][i].max_redirects >= 0

\* C8: when make_request returns to the session, the response returned is the
\* last one received and its history is every earlier response of the
\* exchange, in the order of arrival; the same holds of the response a nested
\* make_request is about to return.
C8_HistoryIsEarlierResponsesInOrder ==
    \A e \in Exchanges :
        /\ pc[e] = "done" =>
              /\ result[e].resp = Last(received[e])
              /\ result[e].history = SubSeq(received[e], 1, Len(received[e]) - 1)
        /\ (pc[e] = "return" /\ ~response_obj[e].is_tuple) =>
              /\ response_obj[e].resp = Last(received[e])
              /\ self[e].history_objects = SubSeq(received[e], 1, Len(received[e]) - 1)

C8_Witness ==
    \E e \in Exchanges :
        /\ pc[e] = "done"
        /\ Len(result[e].history) >= 2
        /\ result[e].history[1].status # result[e].history[2].status

\* C9: once a 303 has been answered, data, json and files are None, and every
\* later request of the exchange has an empty body, Content-Length 0 and no
\* Content-Type computed from a body.
C9_SeeOtherClearsBody ==
    \A e \in Exchanges :
        /\ (\E i \in 1..Len(self[e].history_objects) :
                self[e].history_objects[i].status = 303)
           => /\ self[e].data = "None"
              /\ self[e].json = "None"
              /\ self[e].files = "None"
        /\ \A i \in 1..Len(received[e]) :
              received[e][i].status = 303 =>
                  \A j \in (i + 1)..Len(wire[e]) :
                      /\ wire[e][j].body = ""
                      /\ wire[e][j].headers["Content-Length"] = "0"
                      /\ wire[e][j].headers["Content-Type"] \in {NoHeader, "user"}

C9_Witness ==
    \E e \in Exchanges :
        /\ Len(wire[e]) >= 3
        /\ received[e][1].status = 303
        /\ wire[e][1].body # ""
        /\ wire[e][1].headers["Content-Type"] = "application/json"
        /\ wire[e][3].body = ""

\* C10: a request re-issued after a 301 or a 305 has the method of the request
\* that was redirected; a request re-issued after any other 3xx is a GET.
C10_MethodAfterRedirect ==
    \A e \in Exchanges : \A i \in 1..Len(received[e]) :
        (Is3xx(received[e][i].status) /\ Len(wire[e]) > i) =>
            /\ wire[e][i + 1].site = "redirect"
            /\ wire[e][i + 1].method =
                  IF received[e][i].status \in {301, 305}
                  THEN wire[e][i].method ELSE "GET"

C10_Witness ==
    \E e \in Exchanges :
        /\ Len(wire[e]) >= 3
        /\ received[e][1].status = 305 /\ received[e][2].status = 302
        /\ wire[e][1].method = "POST" /\ wire[e][2].method = "POST"
        /\ wire[e][3].method = "GET"

\* C11: when a 3xx carries a Location without authority, the URI of the
\* re-issued request has the scheme and the authority of the request that was
\* redirected and the path, query and fragment of the Location, and the
\* connection is replaced only if the response said Connection: close.
C11_RelativeLocationKeepsOrigin ==
    \A e \in Exchanges : \A i \in 1..Len(received[e]) :
        (/\ i + 1 <= Len(wire[e])
         /\ Is3xx(received[e][i].status)
         /\ received[e][i].location # <<>>
         /\ received[e][i].location[1].netloc = <<>>)
        => LET location == received[e][i].location[1]
               before == wire[e][i]
               after == wire[e][i + 1]
           IN  /\ after.uri = ParseResult(before.scheme, before.host, location.path,
                                          location.query, location.fragment)
               /\ after.scheme = before.scheme
               /\ after.host = before.host
               /\ after.target.path = (IF location.path = "" THEN "/" ELSE location.path)
               /\ after.target.query = location.query
               /\ (received[e][i].connection = NoHeader => after.sock = before.sock)

\* An https request was redirected by "/new/path?q=1" and re-issued on the
\* connection it was sent on.
C11_Witness ==
    \E e \in Exchanges :
        /\ Len(wire[e]) = 2
        /\ wire[e][1].scheme = "https"
        /\ received[e][1].location = <<RelativeRef("/new/path", "q=1", "")>>
        /\ wire[e][2].uri = ParseResult("https", HostA, "/new/path", "q=1", "")
        /\ wire[e][2].sock = wire[e][1].sock

\* The text with its leading and trailing whitespace removed and every other
\* run of whitespace replaced by one '+'.
PlusForWhitespace(s) ==
    LET IsWs(j) == s[j] \in Whitespace
        keep == { j \in 1..Len(s) :
                    \/ ~IsWs(j)
                    \/ /\ j > 1
                       /\ ~IsWs(j - 1)
                       /\ \E p \in (j + 1)..Len(s) : ~IsWs(p) }
        nth(i) == CHOOSE j \in keep : Cardinality({ p \in keep : p < j }) = i - 1
    IN  [i \in 1..Cardinality(keep) |-> IF IsWs(nth(i)) THEN "+" ELSE s[nth(i)]]

\* A pair as it is emitted: percent-encoded, '/', '=', '+', '?', '&' kept.
Pair(k, text) == [i \in 1..(Len(k) + 1 + Len(text)) |-> Quote((k \o <<"=">> \o text)[i])]

\* The pairs of one item of the mapping.
PairsOf(item) ==
    CASE ~TruthyValue(item.v) -> <<>>
      [] TruthyValue(item.v) /\ item.v.type \in {"str", "Number"} ->
           <<Pair(item.k, PlusForWhitespace(item.v.str))>>
      [] TruthyValue(item.v) /\ item.v.type = "list" ->
           [j \in 1..Len(item.v.elems) |-> Pair(item.k, PlusForWhitespace(item.v.elems[j]))]
      [] TruthyValue(item.v) /\ item.v.type = "dict" ->
           [j \in 1..Len(item.v.elems) |-> Pair(item.k, item.v.elems[j])]

RECURSIVE AllPairs(_)
AllPairs(data) == IF data = <<>> THEN <<>> ELSE PairsOf(Head(data)) \o AllPairs(Tail(data))

RECURSIVE Flatten(_)
Flatten(parts) == IF parts = <<>> THEN <<>> ELSE Head(parts) \o Flatten(Tail(parts))

\* C12: _dict_to_query with params=False returns the pairs of the mapping in
\* input order with one '&' between neighbours and nothing in front: one
\* key=value pair per non-falsy str or number (words of the value joined by
\* '+'), one key=element pair per element of a non-empty list or dict, nothing
\* for a falsy value.
C12_FormEncoderWithoutPrefix ==
    (codec.fn = "_dict_to_query" /\ codec.returned /\ ~codec.params)
    => LET pairs == AllPairs(codec.data)
       IN  /\ Len(codec.out) = Len(Flatten(pairs)) + (IF pairs = <<>> THEN 0 ELSE Len(pairs) - 1)
           /\ \A n \in 1..Len(pairs) :
                 LET start == Len(Flatten(SubSeq(pairs, 1, n - 1))) + (n - 1)
                 IN  /\ SubSeq(codec.out, start + 1, start + Len(pairs[n])) = pairs[n]
                     /\ n < Len(pairs) => codec.out[start + Len(pairs[n]) + 1] = "&"

\* {a: 'x y', b: [1, 2]} was encoded as a=x+y&b=1&b=2.
C12_Witness ==
    /\ codec.fn = "_dict_to_query" /\ codec.returned /\ ~codec.params
    /\ codec.data = << [k |-> <<"a">>, v |-> Str(<<"x", " ", "y">>)],
                       [k |-> <<"b">>, v |-> List(<< <<"1">>, <<"2">> >>)] >>
    /\ codec.out = <<"a", "=", "x", "+", "y", "&", "b", "=", "1", "&", "b", "=", "2">>

\* The number of the part a piece of a multipart body belongs to: the number
\* of opening delimiters up to it.
PartOf(out, j) == Cardinality({ p \in 1..j : out[p][1] = Delimiter[1] })

\* C13: the multipart body of n >= 1 items has n opening delimiters, one in
\* front of each part in the order of the items, and one closing delimiter, at
\* its end; the part of an existing file has a filename and a content type,
\* the part of a literal text has neither.
C13_MultipartDelimitersAndParts ==
    (codec.fn = "_multipart" /\ codec.returned /\ Len(codec.data) >= 1)
    => LET out == codec.out
           n == Len(codec.data)
           Has(i, piece) == \E j \in 1..Len(out) : PartOf(out, j) = i /\ out[j][1] = piece
       IN  /\ PartOf(out, Len(out)) = n
           /\ { j \in 1..Len(out) : out[j][1] = CloseDelimiter[1] } = {Len(out)}
           /\ \A i \in 1..n :
                 /\ \E j \in 2..Len(out) :
                       /\ PartOf(out, j) = i
                       /\ out[j - 1] = Delimiter
                       /\ out[j] = Disposition(codec.data[i].k)
                 /\ codec.data[i].v.exists
                       => Has(i, Filename("")[1]) /\ Has(i, ContentType(<<>>)[1])
                 /\ ~codec.data[i].v.exists
                       => ~Has(i, Filename("")[1]) /\ ~Has(i, ContentType(<<>>)[1])

\* C14: when make_request returns after at least one redirect was followed
\* and the last request went to another scheme or authority than the first,
\* the connection the exchange ends on is marked inactive.
C14_OffOriginConnectionReturnedInactive ==
    \A e \in Exchanges :
        (/\ pc[e] = "done"
         /\ \E i \in 1..Len(wire[e]) : wire[e][i].site = "redirect"
         /\ \/ Last(wire[e]).scheme # wire[e][1].scheme
            \/ Last(wire[e]).host # wire[e][1].host)
        => ~conns[self[e].sock].active

\* C15: an exchange never sends more than max_redirects + 3 requests, and
\* every exchange ends, by a return or by an exception.
C15_EveryExchangeTerminates ==
    /\ [](\A e \in Exchanges :
             wire[e] # <<>> => Len(wire[e]) <= wire[e][1].max_redirects + 3)
    /\ <>(\A e \in Exchanges : pc[e] = "unused" \/ Ended(e))

\* An exchange has ended after max_redirects + 3 requests: the first, its
\* authenticated retry, and max_redirects + 1 re-issues.
C15_Witness ==
    \E e \in Exchanges :
        /\ Ended(e)
        /\ wire[e] # <<>>
        /\ wire[e][1].max_redirects >= 1
        /\ Len(wire[e]) = wire[e][1].max_redirects + 3

\* C16: when an exchange that uses a post-response authentication strategy
\* has ended, by a return or by an exception, auth_attempted is false.
C16_AuthAttemptedResetWhenExchangeEnds ==
    \A e \in Exchanges :
        (Ended(e) /\ self[e].auth = "post") => ~auth_attempted

\* C17: in every request sent, each header whose name the caller supplied
\* has the caller's value, whether a default, the body, the authentication
\* strategy or the cookies also set that name.
C17_CallerHeadersTakePrecedence ==
    \A e \in Exchanges : \A i \in 1..Len(wire[e]) :
        \A name \in self[e].headers : wire[e][i].headers[name] = "user"

\* C18: when a send or a receive fails, the error leaves make_request and the
\* connection of the exchange has been marked inactive.
C18_TransportErrorRetiresConnection ==
    \A e \in Exchanges :
        (pc[e] = "error" /\ result[e].err = "TransportError")
        => ~conns[self[e].sock].active

\* C19: a response whose headers have neither Content-Length nor
\* Transfer-Encoding is turned into a Response with an empty body, with
\* nothing of it left unread on the connection, and handling it raises nothing.
C19_NoFramingHeadersMeansNoBody ==
    \A e \in Exchanges :
        /\ \A i \in 1..Len(received[e]) :
              received[e][i].framing = "none"
              => received[e][i].body = 0 /\ ~received[e][i].stream_body
        /\ (/\ wire[e] # <<>>
            /\ pc[e] # "catch_response"
            /\ Len(received[e]) < Len(wire[e])
            /\ conns[Last(wire[e]).sock].framing = "none")
           => /\ pc[e] = "error"
              /\ result[e].err = "TransportError"

\* C20: when a 2xx response is handed out as a streaming body, the connection
\* is still active only if the request went to the scheme and authority of
\* the first request and the response did not say Connection: close.
C20_StreamingKeepsOnlySameOriginOpenConnection ==
    \A e \in Exchanges :
        (/\ pc[e] = "auth_check"
         /\ Last(received[e]).stream_body
         /\ conns[Last(wire[e]).sock].active)
        => /\ Last(wire[e]).scheme = wire[e][1].scheme
           /\ Last(wire[e]).host = wire[e][1].host
           /\ Lower(Last(received[e]).connection) # "close"

\* The body the priority files+data > files > data > json gives when an empty
\* mapping counts as absent, and its content type.
BodyByPriority(s) ==
    IF Truthy(s.files) THEN <<"multipart", "multipart/form-data">>
    ELSE IF s.data = "literal" THEN <<"literal", " text/html">>
    ELSE IF Truthy(s.data) THEN <<"form", "application/x-www-form-urlencoded">>
    ELSE IF Truthy(s.json) THEN <<"json", "application/json">>
    ELSE <<"", NoHeader>>

\* C21: the first request of an exchange carries the body that the priority
\* files+data > files > data > json selects among the non-empty body fields,
\* and, unless the caller set Content-Type, its content type.
C21_BodyKindByPriorityOfNonEmptyFields ==
    \A e \in Exchanges :
        (Len(wire[e]) = 1 /\ pc[e] = "catch_response")
        => /\ wire[e][1].body = BodyByPriority(self[e])[1]
           /\ "Content-Type" \notin self[e].headers
                 => wire[e][1].headers["Content-Type"] = BodyByPriority(self[e])[2]

C23_NoRequestOnClosedConnection ==
    \A e \in Exchanges : \A i \in 1..Len(received[e]) : \A j \in 1..Len(wire[e]) :
        (i < j /\ Lower(received[e][i].connection) = "close")
        => wire[e][j].sock # wire[e][i].sock

\* The names of the cookies callers pass; the jar holds none of them.
CallerCookies == {"sid"}

\* C24: with a cookie tracker set, every cookie of a request is a cookie the
\* caller passed or one the jar holds for the authority and path that request
\* is sent to.
C24_JarCookiesStayWithTheirAuthority ==
    \A e \in Exchanges : \A i \in 1..Len(wire[e]) :
        self[e].persist_cookies # "None"
        => wire[e][i].cookies \subseteq
              CallerCookies \cup get_additional_cookies(wire[e][i].host,
                                                        wire[e][i].target.path)

====
